---- MODULE Spec2Model ----
(***************************************************************************)
(* Post-processing pipeline of the EAST text detector (src/detect.py):     *)
(* detect_dataset, detect, get_boxes, restore_polys, is_valid_poly,        *)
(* adjust_ratio and plot_boxes; and the image-enlargement loop of the      *)
(* recogniser's training (src/ctc/train.py).                               *)
(*                                                                         *)
(* Conventions of the model                                                *)
(*   - scores are integer hundredths (0.9 is 90);                          *)
(*   - angles are whole quarter turns (angle = q * pi/2), so that cos and  *)
(*     sin are exact integers and every restored coordinate is an integer; *)
(*   - a floating-point value is an exact rational <<n, d>>, d > 0, in     *)
(*     lowest terms;                                                       *)
(*   - array indices are 0-based as in numpy, sequences 1-based as in TLA+.*)
(***************************************************************************)
EXTENDS Integers, Sequences, FiniteSets, TLC

VARIABLES
    pc,         \* position of the driver: which call comes next
    run,        \* 1: first pass over the image, 2: the pass repeated on the same image
    build,      \* tie order the installed numpy's argsort(kind='quicksort') produces
    img,        \* the opened PIL image: [w, h]
    net_in,     \* the image detect hands to the model: [w, h]
    ratio_h,    \* rational returned by resize_img
    ratio_w,    \* rational returned by resize_img
    score,      \* score map returned by the model: [rows, cols, val]
    geo,        \* geometry map returned by the model: [rows, cols, val]
    xy_text,    \* get_boxes: selected pixels <<r, c>>
    valid_pos,  \* get_boxes: the array handed to restore_polys, rows <<x, y>>
    valid_geo,  \* get_boxes: geometry columns of the selected pixels
    polys,      \* restore_polys' first return value
    index,      \* restore_polys' second return value (0-based positions)
    boxes,      \* detect: the array returned by get_boxes (None or rows of 8 floats)
    result,     \* detect's return value
    file,       \* the result file of the image: [written, lines]
    drawn,      \* polygons plot_boxes has drawn on the image
    err,        \* exception that ended the pass ("" when none)
    prev,       \* what the first pass returned: [boxes, result]
    call        \* a function applied on its own: [op, ...arguments and results]

pipeVars == <<pc, run, build, img, net_in, ratio_h, ratio_w, score, geo, xy_text,
              valid_pos, valid_geo, polys, index, boxes, result, file, drawn, err, prev>>
vars == <<pc, run, build, img, net_in, ratio_h, ratio_w, score, geo, xy_text,
          valid_pos, valid_geo, polys, index, boxes, result, file, drawn, err, prev, call>>

(***************************************************************************)
(* Bounds of the model.                                                    *)
(***************************************************************************)
MaxRows == 2
MaxCols == 2
MaxBoxes == 3
MaxWidth == 12      \* widest image the enlargement loop starts from
MaxLabelLen == 2    \* longest index sequence of a label
MaxHeight == 1000   \* tallest image the resize can still allocate

(***************************************************************************)
(* Program constants.                                                      *)
(***************************************************************************)
NewHeight == 126
NewWidth == 224
Scale == 4
ScoreThresh == 90
NmsThresh == <<1, 5>>
PIX_P_PRED == 30

(***************************************************************************)
(* Values.                                                                 *)
(***************************************************************************)
None == [none |-> TRUE, rows |-> <<>>]
Some(rows) == [none |-> FALSE, rows |-> rows]

Abs(n) == IF n < 0 THEN -n ELSE n
Min(a, b) == IF a <= b THEN a ELSE b
Max(a, b) == IF a >= b THEN a ELSE b

MinOf(S) == CHOOSE a \in S : \A b \in S : a <= b
MaxOf(S) == CHOOSE a \in S : \A b \in S : a >= b

RECURSIVE Gcd(_, _)
Gcd(a, b) == IF b = 0 THEN a ELSE Gcd(b, a % b)

\* The rational n/d in lowest terms with a positive denominator.
Rat(n, d) ==
    LET s == IF d < 0 THEN -1 ELSE 1
        g == Gcd(Abs(n), Abs(d))
    IN  <<(s * n) \div g, (s * d) \div g>>

Flt(n) == <<n, 1>>

\* q1 / q2 for rationals, q2 # 0.
RatDiv(q1, q2) == Rat(q1[1] * q2[2], q1[2] * q2[1])

\* Rounding with a tie always upward, floor(x + 1/2).
AroundHalfUp(q) ==
    LET n == q[1]
        d == q[2]
        f == n \div d
        r == n - f * d
    IN  IF 2 * r < d THEN Flt(f) ELSE Flt(f + 1)

\* numpy.around on one value: round to the nearest integer, a tie to the even one.
Around(q) ==
    LET n == q[1]
        d == q[2]
        f == n \div d
        r == n - f * d
    IN  IF 2 * r < d THEN Flt(f)
        ELSE IF 2 * r > d THEN Flt(f + 1)
        ELSE IF f % 2 = 0 THEN Flt(f) ELSE Flt(f + 1)

\* Python's int() on a float: truncation toward zero.
PyInt(q) == IF q[1] >= 0 THEN q[1] \div q[2] ELSE -((-q[1]) \div q[2])

\* Python's str() on an int.
PyStr(n) == ToString(n)

RECURSIVE Join(_, _)
\* sep.join(strs)
Join(sep, strs) ==
    IF strs = <<>> THEN ""
    ELSE IF Len(strs) = 1 THEN strs[1]
    ELSE strs[1] \o sep \o Join(sep, Tail(strs))

\* seq[:-1]
DropLast(seq) == IF seq = <<>> THEN <<>> ELSE SubSeq(seq, 1, Len(seq) - 1)

(***************************************************************************)
(* resize_img: the ratios of a resize to NewWidth x NewHeight, and the     *)
(* image it returns (the one it was given).                                *)
(***************************************************************************)
resize_img(image) ==
    [image |-> image,
     ratio_height |-> Rat(NewHeight, image.h),
     ratio_width |-> Rat(NewWidth, image.w)]

(***************************************************************************)
(* is_valid_poly: res is <<xs, ys>>, four x and four y; score_shape is     *)
(* <<rows, cols>>.  A corner counts when its x or its y is out of range.   *)
(***************************************************************************)
CornerOut(res, score_shape, scale, i) ==
    \/ res[1][i] < 0
    \/ res[1][i] >= score_shape[2] * scale
    \/ res[2][i] < 0
    \/ res[2][i] >= score_shape[1] * scale

\* The range test with the two extents of the shape exchanged.
is_valid_poly_swapped(res, score_shape, scale) ==
    LET cnt == Cardinality({i \in 1..Len(res[1]) :
                   \/ res[1][i] < 0
                   \/ res[1][i] >= score_shape[1] * scale
                   \/ res[2][i] < 0
                   \/ res[2][i] >= score_shape[2] * scale})
    IN  cnt <= 1

is_valid_poly(res, score_shape, scale) ==
    LET cnt == Cardinality({i \in 1..Len(res[1]) : CornerOut(res, score_shape, scale, i)})
    IN  cnt <= 1

(***************************************************************************)
(* Get_Rotation_Matrix for an angle of q quarter turns.                    *)
(***************************************************************************)
Cos4(q) == CASE q % 4 = 0 -> 1 [] q % 4 = 2 -> -1 [] OTHER -> 0
Sin4(q) == CASE q % 4 = 1 -> 1 [] q % 4 = 3 -> -1 [] OTHER -> 0

\* The matrix with the sign of its sines exchanged: the rotation the other way.
Get_Rotation_Matrix_T(q) == << <<Cos4(q), Sin4(q)>>, <<-Sin4(q), Cos4(q)>> >>

Get_Rotation_Matrix(q) == << <<Cos4(q), -Sin4(q)>>, <<Sin4(q), Cos4(q)>> >>

(***************************************************************************)
(* restore_polys.  ScalePos is the in-place valid_pos *= scale; RestoreOne *)
(* is the loop body up to res; RestoreLoop is the loop with its filter.    *)
(***************************************************************************)
ScalePos(pos, scale) == [i \in 1..Len(pos) |-> <<pos[i][1] * scale, pos[i][2] * scale>>]

RestoreOne(x, y, g) ==
    LET y_min == y - g[1]
        y_max == y + g[2]
        x_min == x - g[3]
        x_max == x + g[4]
        rotate_mat == Get_Rotation_Matrix(-g[5])
        temp_x == <<x_min - x, x_max - x, x_max - x, x_min - x>>
        temp_y == <<y_min - y, y_min - y, y_max - y, y_max - y>>
    IN  << [i \in 1..4 |-> rotate_mat[1][1] * temp_x[i] + rotate_mat[1][2] * temp_y[i] + x],
           [i \in 1..4 |-> rotate_mat[2][1] * temp_x[i] + rotate_mat[2][2] * temp_y[i] + y] >>

\* [res[0,0], res[1,0], res[0,1], res[1,1], res[0,2], res[1,2], res[0,3], res[1,3]]
Flatten(res) ==
    <<res[1][1], res[2][1], res[1][2], res[2][2], res[1][3], res[2][3], res[1][4], res[2][4]>>

RECURSIVE RestoreLoop(_, _, _, _, _, _)
\* The loop from position i (1-based here) on, polys and index (0-based) so far
\* in acc.
RestoreLoop(pos, g, score_shape, scale, i, acc) ==
    IF i > Len(pos) THEN acc
    ELSE LET res == RestoreOne(pos[i][1], pos[i][2], g[i])
         IN  RestoreLoop(pos, g, score_shape, scale, i + 1,
                         IF is_valid_poly(res, score_shape, scale)
                         THEN [polys |-> Append(acc.polys, Flatten(res)),
                               index |-> Append(acc.index, i - 1)]
                         ELSE acc)

\* What restore_polys returns, and what it leaves in the caller's valid_pos.
restore_polys(pos, g, score_shape, scale) ==
    LET scaled == ScalePos(pos, scale)
        out == RestoreLoop(scaled, g, score_shape, scale, 1, [polys |-> <<>>, index |-> <<>>])
    IN  [polys |-> out.polys, index |-> out.index, valid_pos |-> scaled]

(***************************************************************************)
(* get_boxes, the parts of it.                                             *)
(***************************************************************************)
Pixels(rows, cols) == (0..(rows - 1)) \X (0..(cols - 1))

\* The pixels in numpy's scan order: row by row, each row by ascending column.
ScanSeq(rows, cols) == [k \in 1..(rows * cols) |-> <<(k - 1) \div cols, (k - 1) % cols>>]

\* np.argwhere(score > score_thresh)
Argwhere(sc, thresh) ==
    LET Above(p) == sc.val[p] > thresh
    IN  SelectSeq(ScanSeq(sc.rows, sc.cols), Above)

\* Of the positions in `left` whose key is m, the first when tie is "stable"
\* and the last otherwise.
PickTie(keys, left, tie, m) ==
    IF tie = "stable"
    THEN CHOOSE i \in left : keys[i] = m /\ \A j \in left : keys[j] = m => i <= j
    ELSE CHOOSE i \in left : keys[i] = m /\ \A j \in left : keys[j] = m => i >= j

RECURSIVE SortFrom(_, _, _)
RECURSIVE SortNext(_, _, _, _)
\* The positions in `left` by ascending key; equal keys by ascending position
\* when tie is "stable", and in the opposite order otherwise.
SortFrom(keys, left, tie) ==
    IF left = {} THEN <<>>
    ELSE SortNext(keys, left, tie, PickTie(keys, left, tie, MinOf({keys[i] : i \in left})))

SortNext(keys, left, tie, pick) == <<pick>> \o SortFrom(keys, left \ {pick}, tie)

\* An argsort whose order of equal keys changes from one pass to the next.
ArgsortPerRun(keys) ==
    SortFrom(keys, 1..Len(keys), IF run = 1 THEN "stable" ELSE "unstable")

\* np.argsort(keys) with the default kind, 'quicksort', which numpy does not
\* make stable: the order of equal keys is whatever the installed build gives.
Argsort(keys) == SortFrom(keys, 1..Len(keys), build)

\* xy_text[np.argsort(xy_text[:, 0])]
Take(arr, perm) == [i \in 1..Len(perm) |-> arr[perm[i]]]

SortByRow(xy) == Take(xy, Argsort([i \in 1..Len(xy) |-> xy[i][1]]))

\* xy_text[:, ::-1].copy()
ValidPos(xy) == [i \in 1..Len(xy) |-> <<xy[i][2], xy[i][1]>>]

\* Whether geo[:, r, c] is inside the geometry map.
InGeo(g, p) == p[1] < g.rows /\ p[2] < g.cols

\* geo[:, xy_text[:, 0], xy_text[:, 1]]
ValidGeo(g, xy) == [i \in 1..Len(xy) |-> g.val[xy[i]]]

\* An assembly that takes the score of the k-th selected pixel for the k-th
\* polygon, whatever position the polygon was restored from.
AssembleByRow(ps, idx, xy, sc) ==
    [i \in 1..Len(ps) |-> ps[i] \o <<sc.val[xy[i]]>>]

\* boxes[:, :8] = polys_restored; boxes[:, 8] = score[xy_text[index, 0], xy_text[index, 1]]
Assemble(ps, idx, xy, sc) ==
    [i \in 1..Len(ps) |-> ps[i] \o <<sc.val[xy[idx[i] + 1]]>>]

\* boxes[:, :8], as floats
DropScore(rows) == [i \in 1..Len(rows) |-> [j \in 1..8 |-> Flt(rows[i][j])]]

(***************************************************************************)
(* lanms.merge_quadrangle_n9: the greedy suppression the design describes. *)
(* The overlap of two quadrangles is the intersection over union of their  *)
(* bounding rectangles, which is exact for the axis-parallel rectangles    *)
(* that quarter-turn angles restore.                                       *)
(***************************************************************************)
BBox(row) ==
    [x1 |-> MinOf({row[1], row[3], row[5], row[7]}),
     x2 |-> MaxOf({row[1], row[3], row[5], row[7]}),
     y1 |-> MinOf({row[2], row[4], row[6], row[8]}),
     y2 |-> MaxOf({row[2], row[4], row[6], row[8]})]

Area(b) == (b.x2 - b.x1) * (b.y2 - b.y1)

Inter(a, b) ==
    Max(0, Min(a.x2, b.x2) - Max(a.x1, b.x1)) * Max(0, Min(a.y2, b.y2) - Max(a.y1, b.y1))

\* overlap(r1, r2) > thres; an empty union overlaps nothing.
Overlaps(r1, r2, thres) ==
    LET a == BBox(r1)
        b == BBox(r2)
        i == Inter(a, b)
        u == Area(a) + Area(b) - i
    IN  u > 0 /\ i * thres[2] > thres[1] * u

RECURSIVE Greedy(_, _, _)
\* The rows of `todo` in turn, each kept unless it overlaps a row kept before it.
Greedy(todo, kept, thres) ==
    IF todo = <<>> THEN kept
    ELSE IF \E k \in 1..Len(kept) : Overlaps(Head(todo), kept[k], thres)
         THEN Greedy(Tail(todo), kept, thres)
         ELSE Greedy(Tail(todo), Append(kept, Head(todo)), thres)

\* The suppression visiting the rows by ascending score.
merge_lowest_first(rows, thres) ==
    LET order == SortFrom([i \in 1..Len(rows) |-> rows[i][9]], 1..Len(rows), "stable")
    IN  Greedy(Take(rows, order), <<>>, thres)

merge_quadrangle_n9(rows, thres) ==
    LET order == SortFrom([i \in 1..Len(rows) |-> -rows[i][9]], 1..Len(rows), "stable")
    IN  Greedy(Take(rows, order), <<>>, thres)

(***************************************************************************)
(* adjust_ratio: what it returns, and what it leaves in the caller's array.*)
(***************************************************************************)
DivideRow(row, rw, rh) ==
    [j \in 1..Len(row) |-> IF j \in {1, 3, 5, 7} THEN RatDiv(row[j], rw)
                           ELSE IF j \in {2, 4, 6, 8} THEN RatDiv(row[j], rh)
                           ELSE row[j]]

\* adjust_ratio answering no detections with an empty array instead of None.
adjust_ratio_unguarded(bx, rw, rh) ==
    LET divided == [i \in 1..Len(bx.rows) |-> DivideRow(bx.rows[i], rw, rh)]
    IN  [ret |-> Some([i \in 1..Len(divided) |->
                         [j \in 1..Len(divided[i]) |-> Around(divided[i][j])]]),
         boxes |-> IF bx.none THEN bx ELSE Some(divided)]

adjust_ratio(bx, rw, rh) ==
    IF bx.none \/ bx.rows = <<>>
    THEN [ret |-> None, boxes |-> bx]
    ELSE LET divided == [i \in 1..Len(bx.rows) |-> DivideRow(bx.rows[i], rw, rh)]
         IN  [ret |-> Some([i \in 1..Len(divided) |->
                              [j \in 1..Len(divided[i]) |-> Around(divided[i][j])]]),
              boxes |-> Some(divided)]

(***************************************************************************)
(* detect_dataset: the lines written for one image; plot_boxes: the        *)
(* polygons drawn.                                                         *)
(***************************************************************************)
Line(box) ==
    LET kept == DropLast(box)
    IN  Join(",", [j \in 1..Len(kept) |-> PyStr(PyInt(kept[j]))]) \o "\n"

Lines(res) == IF res.none THEN <<>> ELSE [i \in 1..Len(res.rows) |-> Line(res.rows[i])]

plot_boxes(canvas, res) ==
    IF res.none THEN canvas
    ELSE canvas \o [i \in 1..Len(res.rows) |-> [j \in 1..8 |-> res.rows[i][j]]]

(***************************************************************************)
(* The inputs: the images of the dataset, the tie orders of argsort, and   *)
(* the maps the network may return.                                        *)
(***************************************************************************)
Images == {[w |-> 448, h |-> 126], [w |-> 112, h |-> 252]}

Builds == {"stable", "unstable"}

ScoreShape == <<MaxRows, MaxCols>>

Styles == {"flat", "asc"}

\* The score of a pixel above the threshold, and of one not above it.
High(style, p) ==
    IF style = "flat" THEN 95 ELSE 91 + (p[1] * MaxCols + p[2])
Low(style) == IF style = "flat" THEN ScoreThresh ELSE 80

ScoreMaps ==
    {[rows |-> MaxRows, cols |-> MaxCols,
      val |-> [p \in Pixels(MaxRows, MaxCols) |-> IF p \in S THEN High(style, p) ELSE Low(style)]] :
        S \in SUBSET Pixels(MaxRows, MaxCols), style \in Styles}

Patterns == {"cell", "full", "edge", "turn", "lap"}

\* The geometry column <<d0, d1, d2, d3, angle>> a pattern gives pixel <<r, c>>.
GeoAt(pat, p) ==
    LET x == p[2] * Scale
        y == p[1] * Scale
    IN  CASE pat = "cell" -> <<0, 3, 0, 3, 0>>
          [] pat = "full" -> <<y, MaxRows * Scale - 1 - y, x, MaxCols * Scale - 1 - x, 0>>
          [] pat = "edge" -> <<1, 1, 1, 1, 0>>
          [] pat = "turn" -> <<0, 3, 0, 3, IF p[2] % 2 = 0 THEN 1 ELSE -1>>
          [] OTHER -> IF p[2] % 2 = 0 THEN <<0, 3, 0, 4, 0>> ELSE <<0, 3, 1, 1, 0>>

\* The extents a geometry map may have: those of the score map, a column
\* fewer, a row more.
OtherShapes == {<<MaxRows, MaxCols - 1>>, <<MaxRows + 1, MaxCols>>}

GeoMap(sh, pat) ==
    [rows |-> sh[1], cols |-> sh[2], val |-> [p \in Pixels(sh[1], sh[2]) |-> GeoAt(pat, p)]]

GeoMaps ==
    {GeoMap(ScoreShape, pat) : pat \in Patterns} \cup {GeoMap(sh, "cell") : sh \in OtherShapes}

NoMap == [rows |-> 0, cols |-> 0, val |-> <<>>]
NoImage == [w |-> 0, h |-> 0]
NoFile == [written |-> FALSE, lines |-> <<>>]
NoCall == [op |-> "none"]

(***************************************************************************)
(* The driver: detect_dataset on one image, then the same image again.     *)
(***************************************************************************)
LocalsInit ==
    /\ net_in = NoImage
    /\ ratio_h = Flt(0)
    /\ ratio_w = Flt(0)
    /\ xy_text = <<>>
    /\ valid_pos = <<>>
    /\ valid_geo = <<>>
    /\ polys = <<>>
    /\ index = <<>>
    /\ boxes = None
    /\ result = None
    /\ file = NoFile
    /\ drawn = <<>>
    /\ err = ""

PipeInit ==
    /\ pc = "start"
    /\ run = 1
    /\ build \in Builds
    /\ img \in Images
    /\ score = NoMap
    /\ geo = NoMap
    /\ prev = [boxes |-> None, result |-> None]
    /\ LocalsInit

PipeIdle ==
    /\ pc = "idle"
    /\ run = 1
    /\ build = "stable"
    /\ img = NoImage
    /\ score = NoMap
    /\ geo = NoMap
    /\ prev = [boxes |-> None, result |-> None]
    /\ LocalsInit

\* detect, line 231
ResizeImg ==
    /\ pc = "start"
    /\ LET r == resize_img(img)
       IN  /\ net_in' = r.image
           /\ ratio_h' = r.ratio_height
           /\ ratio_w' = r.ratio_width
    /\ pc' = "resized"
    /\ UNCHANGED <<run, build, img, score, geo, xy_text, valid_pos, valid_geo, polys,
                   index, boxes, result, file, drawn, err, prev, call>>

\* detect, lines 232-233: the network is deterministic, so the second pass
\* over the same image gets the maps of the first.
Infer ==
    /\ pc = "resized"
    /\ IF run = 1
       THEN score' \in ScoreMaps /\ geo' \in GeoMaps
       ELSE UNCHANGED <<score, geo>>
    /\ pc' = "inferred"
    /\ UNCHANGED <<run, build, img, net_in, ratio_h, ratio_w, xy_text, valid_pos,
                   valid_geo, polys, index, boxes, result, file, drawn, err, prev, call>>

\* get_boxes, lines 175-177, for the sorted pixels
SelectSorted(sorted) ==
    IF \A i \in 1..Len(sorted) : InGeo(geo, sorted[i])
    THEN /\ pc' = "restore"
         /\ xy_text' = sorted
         /\ valid_pos' = ValidPos(sorted)
         /\ valid_geo' = ValidGeo(geo, sorted)
         /\ UNCHANGED <<boxes, prev, err>>
    ELSE /\ pc' = "raised"
         /\ xy_text' = sorted
         /\ valid_pos' = ValidPos(sorted)
         /\ err' = "IndexError"
         /\ UNCHANGED <<boxes, prev, valid_geo>>

\* get_boxes, lines 172-177, for the pixels found
SelectFound(found) ==
    IF found = <<>>
    THEN /\ pc' = "got"
         /\ boxes' = None
         /\ prev' = IF run = 1 THEN [prev EXCEPT !.boxes = None] ELSE prev
         /\ UNCHANGED <<xy_text, valid_pos, valid_geo, err>>
    ELSE SelectSorted(SortByRow(found))

\* get_boxes, lines 170-177
GetBoxesSelect ==
    /\ pc = "inferred"
    /\ SelectFound(Argwhere(score, ScoreThresh))
    /\ UNCHANGED <<run, build, img, net_in, ratio_h, ratio_w, score, geo, polys, index,
                   result, file, drawn, call>>

\* get_boxes, line 178: the call of restore_polys
RestorePolys ==
    /\ pc = "restore"
    /\ LET out == restore_polys(valid_pos, valid_geo, <<score.rows, score.cols>>, Scale)
       IN  /\ polys' = out.polys
           /\ index' = out.index
           /\ valid_pos' = out.valid_pos
    /\ pc' = "assemble"
    /\ UNCHANGED <<run, build, img, net_in, ratio_h, ratio_w, score, geo, xy_text,
                   valid_geo, boxes, result, file, drawn, err, prev, call>>

\* get_boxes, lines 182-184: the n x 9 array handed to lanms.merge_quadrangle_n9
MergeInput == Assemble(polys, index, xy_text, score)

\* get_boxes, lines 179-187
GetBoxesReturn ==
    /\ pc = "assemble"
    /\ LET ret == IF polys = <<>> THEN None
                  ELSE Some(DropScore(merge_quadrangle_n9(MergeInput, NmsThresh)))
       IN  /\ boxes' = ret
           /\ prev' = IF run = 1 THEN [prev EXCEPT !.boxes = ret] ELSE prev
    /\ pc' = "got"
    /\ UNCHANGED <<run, build, img, net_in, ratio_h, ratio_w, score, geo, xy_text,
                   valid_pos, valid_geo, polys, index, result, file, drawn, err, call>>

\* detect, line 235: the call of adjust_ratio and the return
AdjustRatio ==
    /\ pc = "got"
    /\ LET out == adjust_ratio(boxes, ratio_w, ratio_h)
       IN  /\ result' = out.ret
           /\ boxes' = out.boxes
           /\ prev' = IF run = 1 THEN [prev EXCEPT !.result = out.ret] ELSE prev
    /\ pc' = "detected"
    /\ UNCHANGED <<run, build, img, net_in, ratio_h, ratio_w, score, geo, xy_text,
                   valid_pos, valid_geo, polys, index, file, drawn, err, call>>

\* detect_dataset, lines 264-268
WriteFile ==
    /\ pc = "detected"
    /\ file' = [written |-> TRUE, lines |-> Lines(result)]
    /\ pc' = "written"
    /\ UNCHANGED <<run, build, img, net_in, ratio_h, ratio_w, score, geo, xy_text,
                   valid_pos, valid_geo, polys, index, boxes, result, drawn, err, prev, call>>

\* plot_boxes on the image and detect's result
PlotBoxes ==
    /\ pc = "detected"
    /\ drawn' = plot_boxes(drawn, result)
    /\ pc' = "plotted"
    /\ UNCHANGED <<run, build, img, net_in, ratio_h, ratio_w, score, geo, xy_text,
                   valid_pos, valid_geo, polys, index, boxes, result, file, err, prev, call>>

\* detect_dataset, lines 261-263: the next file holds the same image
NextImage ==
    /\ pc \in {"written", "plotted"}
    /\ run = 1
    /\ run' = 2
    /\ pc' = "start"
    /\ net_in' = NoImage
    /\ ratio_h' = Flt(0)
    /\ ratio_w' = Flt(0)
    /\ xy_text' = <<>>
    /\ valid_pos' = <<>>
    /\ valid_geo' = <<>>
    /\ polys' = <<>>
    /\ index' = <<>>
    /\ boxes' = None
    /\ result' = None
    /\ file' = NoFile
    /\ drawn' = <<>>
    /\ UNCHANGED <<build, img, score, geo, err, prev, call>>

Init == PipeInit /\ call = NoCall

Next ==
    \/ ResizeImg
    \/ Infer
    \/ GetBoxesSelect
    \/ RestorePolys
    \/ GetBoxesReturn
    \/ AdjustRatio
    \/ WriteFile
    \/ PlotBoxes
    \/ NextImage

Spec == Init /\ [][Next]_vars

(***************************************************************************)
(* restore_polys' filter on its own: any polygon res against any shape.    *)
(***************************************************************************)
CoordVals == {-1, 0, Scale}

FilterShapes == {<<1, MaxCols>>, <<MaxRows, 1>>}

FilterInit ==
    /\ PipeIdle
    /\ call \in {[op |-> "filter", stage |-> "called", res |-> <<xs, ys>>, score_shape |-> sh,
                  valid |-> FALSE, polys |-> <<>>, index |-> <<>>] :
                    xs \in [1..4 -> CoordVals], ys \in [1..4 -> CoordVals], sh \in FilterShapes}

\* restore_polys, lines 133-135, for the polygon of position 0
FilterPoly ==
    /\ call.op = "filter"
    /\ call.stage = "called"
    /\ LET ok == is_valid_poly(call.res, call.score_shape, Scale)
       IN  call' = [call EXCEPT !.stage = "done",
                                !.valid = ok,
                                !.polys = IF ok THEN <<Flatten(call.res)>> ELSE <<>>,
                                !.index = IF ok THEN <<0>> ELSE <<>>]
    /\ UNCHANGED pipeVars

FilterNext == FilterPoly

SpecFilter == FilterInit /\ [][FilterNext]_vars

(***************************************************************************)
(* The merge on its own: any short array of scored rectangles.             *)
(***************************************************************************)
Rect(x1, y1, x2, y2) == <<x1, y1, x2, y1, x2, y2, x1, y2>>

Candidates ==
    {r \o <<sc>> : r \in {Rect(0, 0, 4, 3), Rect(1, 0, 5, 3), Rect(3, 0, 5, 3), Rect(8, 0, 11, 3)},
                   sc \in {80, 95}}

MergeInit ==
    /\ PipeIdle
    /\ \E n \in 1..MaxBoxes :
         call \in {[op |-> "merge", stage |-> "called", rows |-> rows, out |-> <<>>] :
                     rows \in [1..n -> Candidates]}

\* get_boxes, line 185
MergeCall ==
    /\ call.op = "merge"
    /\ call.stage = "called"
    /\ call' = [call EXCEPT !.stage = "done",
                            !.out = merge_quadrangle_n9(call.rows, NmsThresh)]
    /\ UNCHANGED pipeVars

MergeNext == MergeCall

SpecMerge == MergeInit /\ [][MergeNext]_vars

(***************************************************************************)
(* adjust_ratio on its own: None, an empty array, or an array of boxes     *)
(* whose coordinates are whole and half pixels.                            *)
(***************************************************************************)
Ratios == {Rat(NewWidth, 224), Rat(NewWidth, 448), Rat(NewWidth, 112)}

\* A row of 8 coordinates, in half pixels from a and b.
HalfRow(a, b) == [j \in 1..8 |-> IF j % 2 = 1 THEN Rat(a + (j \div 2), 2) ELSE Rat(b + 2 * (j \div 2), 2)]

BoxArrays ==
    {None} \cup {Some([i \in 1..n |-> HalfRow(a + i, b + 2 * i)]) :
                   n \in 0..MaxBoxes, a \in -4..4, b \in -4..4}

AdjustInit ==
    /\ PipeIdle
    /\ call \in {[op |-> "adjust", stage |-> "called", arg |-> bx, boxes |-> bx,
                  ratio_w |-> rw, ratio_h |-> rh, ret |-> None] :
                    bx \in BoxArrays, rw \in Ratios, rh \in Ratios}

\* adjust_ratio, lines 199-203
AdjustCall ==
    /\ call.op = "adjust"
    /\ call.stage = "called"
    /\ LET out == adjust_ratio(call.boxes, call.ratio_w, call.ratio_h)
       IN  call' = [call EXCEPT !.stage = "done", !.ret = out.ret, !.boxes = out.boxes]
    /\ UNCHANGED pipeVars

AdjustNext == AdjustCall

SpecAdjust == AdjustInit /\ [][AdjustNext]_vars

(***************************************************************************)
(* restore_polys on its own: one position of the score map with any        *)
(* distances and any quarter turn.                                         *)
(***************************************************************************)
DistVals == {0, 1, 3}

Turns == {-1, 0, 1, 2}

RestoreInit ==
    /\ PipeIdle
    /\ call \in {[op |-> "restore", stage |-> "called", valid_pos |-> << <<c, r>> >>,
                  valid_geo |-> << <<d0, d1, d2, d3, q>> >>,
                  score_shape |-> <<MaxRows, MaxCols>>,
                  pos_after |-> << <<c, r>> >>, polys |-> <<>>, index |-> <<>>] :
                    c \in 0..(MaxCols - 1), r \in 0..(MaxRows - 1),
                    d0 \in DistVals, d1 \in DistVals, d2 \in DistVals, d3 \in DistVals,
                    q \in Turns}

\* restore_polys, lines 101-136; pos_after is the caller's array after the call
RestoreCall ==
    /\ call.op = "restore"
    /\ call.stage = "called"
    /\ LET out == restore_polys(call.valid_pos, call.valid_geo, call.score_shape, Scale)
       IN  call' = [call EXCEPT !.stage = "done", !.polys = out.polys, !.index = out.index,
                                !.pos_after = out.valid_pos]
    /\ UNCHANGED pipeVars

RestoreNext == RestoreCall

SpecRestore == RestoreInit /\ [][RestoreNext]_vars

(***************************************************************************)
(* The enlargement loop of train.py (lines 150-152, and 73-74 in val_loss) *)
(* for an image of size (w, h) and a label of L indices.  The program is   *)
(* at the loop's test, at the resize of its body, or past the loop at the  *)
(* forward pass.  int(n * 1.1) is the integer part of 11n/10: the float    *)
(* 1.1 is above 11/10 by less than 1e-16, the fractional part of 11n/10 is *)
(* at most 0.9, so the product never reaches the next integer.  A resize   *)
(* to more than MaxHeight rows fails for lack of memory and ends the       *)
(* program with that exception.                                            *)
(***************************************************************************)
Growth == <<11, 10>>

Heights == {1, 32}

EnlargeInit ==
    /\ PipeIdle
    /\ call \in {[op |-> "enlarge", at |-> "test", w |-> w, h |-> h, L |-> L] :
                    w \in 1..MaxWidth, h \in Heights, L \in 0..MaxLabelLen}

\* while (img.size[0] < (len(labels_ind)*PIX_P_PRED)):
LoopTest ==
    /\ call.op = "enlarge"
    /\ call.at = "test"
    /\ call' = [call EXCEPT !.at = IF call.w < call.L * PIX_P_PRED THEN "resize" ELSE "forward"]
    /\ UNCHANGED pipeVars

\* img = transforms.functional.resize(img, (int(img.size[1]*1.1), int(img.size[0]*1.1)))
LoopResize ==
    /\ call.op = "enlarge"
    /\ call.at = "resize"
    /\ PyInt(Rat(call.h * Growth[1], Growth[2])) <= MaxHeight
    /\ call' = [call EXCEPT !.at = "test",
                            !.h = PyInt(Rat(call.h * Growth[1], Growth[2])),
                            !.w = PyInt(Rat(call.w * Growth[1], Growth[2]))]
    /\ UNCHANGED pipeVars

\* The same statement when the new image is too tall to allocate.
LoopResizeFails ==
    /\ call.op = "enlarge"
    /\ call.at = "resize"
    /\ PyInt(Rat(call.h * Growth[1], Growth[2])) > MaxHeight
    /\ call' = [call EXCEPT !.at = "memory_error"]
    /\ UNCHANGED pipeVars

EnlargeNext == LoopTest \/ LoopResize \/ LoopResizeFails

\* The interpreter always executes the next statement of the loop.
SpecEnlarge == EnlargeInit /\ [][EnlargeNext]_vars /\ WF_vars(EnlargeNext)

(***************************************************************************)
(* Properties.                                                             *)
(***************************************************************************)
Returned == {"got", "detected", "written", "plotted"}
Detected == {"detected", "written", "plotted"}

\* C1 (as claimed): for every box detect returns, detect_dataset writes one
\* newline-terminated line holding all 8 integer coordinates of the box.
C1_EightCoordinatesWritten ==
    (pc = "written" /\ ~result.none) =>
        /\ Len(file.lines) = Len(result.rows)
        /\ \A i \in 1..Len(result.rows) :
             file.lines[i] =
                 Join(",", [j \in 1..8 |-> PyStr(PyInt(result.rows[i][j]))]) \o "\n"

\* The number of out-of-range components, and of corners with one, of a polygon.
XIn(x, sh) == 0 <= x /\ x < sh[2] * Scale
YIn(y, sh) == 0 <= y /\ y < sh[1] * Scale
ComponentsOut(res, sh) ==
    Cardinality({i \in 1..4 : ~XIn(res[1][i], sh)}) + Cardinality({i \in 1..4 : ~YIn(res[2][i], sh)})
CornersOut(res, sh) ==
    Cardinality({i \in 1..4 : ~XIn(res[1][i], sh) \/ ~YIn(res[2][i], sh)})

\* C2 (as claimed): is_valid_poly is True iff at most 1 of the 8 components is
\* out of range, and a polygon with 2 or more such components is never output.
C2_AtMostOneComponentOut ==
    (call.op = "filter" /\ call.stage = "done") =>
        /\ call.valid <=> (ComponentsOut(call.res, call.score_shape) <= 1)
        /\ ComponentsOut(call.res, call.score_shape) >= 2 => call.polys = <<>>

\* C2 (amended): is_valid_poly is True iff at most 1 of the 4 corners has a
\* component out of range, and restore_polys outputs exactly those polygons.
C2_AtMostOneCornerOut ==
    (call.op = "filter" /\ call.stage = "done") =>
        /\ call.valid <=> (CornersOut(call.res, call.score_shape) <= 1)
        /\ IF CornersOut(call.res, call.score_shape) <= 1
           THEN call.polys = <<Flatten(call.res)>> /\ call.index = <<0>>
           ELSE call.polys = <<>> /\ call.index = <<>>

\* C2 witness: a polygon whose first corner has both components out of range,
\* and no other corner any, has been accepted.
C2_Witness ==
    /\ call.op = "filter"
    /\ call.stage = "done"
    /\ call.res[1][1] = -1
    /\ call.res[2][1] = -1
    /\ CornersOut(call.res, call.score_shape) = 1
    /\ call.valid
    /\ call.polys # <<>>

\* No pixel of the score map is above the threshold.
NoPixel == \A p \in Pixels(score.rows, score.cols) : score.val[p] <= ScoreThresh

\* C3: when no pixel is above the threshold, or no restored polygon is valid,
\* get_boxes, adjust_ratio and detect return None, the result file is written
\* empty, plot_boxes draws nothing, and nothing is raised.
C3_NoDetectionsIsNone ==
    /\ (pc \notin {"start", "resized", "inferred"} /\ NoPixel) => pc # "raised"
    /\ (pc \in Returned /\ (NoPixel \/ polys = <<>>)) => boxes = None /\ err = ""
    /\ (pc \in Detected /\ (NoPixel \/ polys = <<>>)) => result = None
    /\ (pc = "written" /\ (NoPixel \/ polys = <<>>)) => file = [written |-> TRUE, lines |-> <<>>]
    /\ (pc = "plotted" /\ (NoPixel \/ polys = <<>>)) => drawn = <<>>

\* C3 witness: pixels were selected, none of their polygons was valid, and the
\* result file has been written.
C3_Witness ==
    /\ pc = "written"
    /\ xy_text # <<>>
    /\ polys = <<>>
    /\ file.written

\* C4: the merge returns the greedy selection: rows of the input, by descending
\* score, the first of the highest-scoring rows kept, no two kept rows
\* overlapping by more than the threshold, a row dropped only for overlapping a
\* kept row that comes before it; of two rows, both are kept when they do not
\* overlap, and only the better (or, at equal scores, the first) otherwise.
C4_GreedySelection ==
    (call.op = "merge" /\ call.stage = "done") =>
        LET rows == call.rows
            out == call.out
            top == MaxOf({rows[i][9] : i \in 1..Len(rows)})
            first == MinOf({i \in 1..Len(rows) : rows[i][9] = top})
            Before(i, j) == rows[i][9] > rows[j][9] \/ (rows[i][9] = rows[j][9] /\ i < j)
        IN  /\ \A k \in 1..Len(out) : \E i \in 1..Len(rows) : out[k] = rows[i]
            /\ Len(out) >= 1
            /\ out[1] = rows[first]
            /\ \A k, l \in 1..Len(out) : k < l => out[k][9] >= out[l][9]
            /\ \A k, l \in 1..Len(out) : k # l => ~Overlaps(out[k], out[l], NmsThresh)
            /\ \A i \in 1..Len(rows) :
                 \/ \E k \in 1..Len(out) : out[k] = rows[i]
                 \/ \E j \in 1..Len(rows) :
                      /\ Before(j, i)
                      /\ \E k \in 1..Len(out) : out[k] = rows[j]
                      /\ Overlaps(rows[i], rows[j], NmsThresh)
            /\ (Len(rows) = 2 /\ ~Overlaps(rows[1], rows[2], NmsThresh)) =>
                   out \in {<<rows[1], rows[2]>>, <<rows[2], rows[1]>>}
            /\ (Len(rows) = 2 /\ Overlaps(rows[1], rows[2], NmsThresh)) =>
                   out = IF rows[2][9] > rows[1][9] THEN <<rows[2]>> ELSE <<rows[1]>>

\* C4 witness: of two rows overlapping by more than the threshold, the first
\* scored 0.80 and the second 0.95, only the second has been kept.
C4_Witness ==
    /\ call.op = "merge"
    /\ call.stage = "done"
    /\ Len(call.rows) = 2
    /\ call.rows[1][9] = 80
    /\ call.rows[2][9] = 95
    /\ Overlaps(call.rows[1], call.rows[2], NmsThresh)
    /\ call.out = <<call.rows[2]>>

\* C5 (as claimed): the image handed to the model is the input resized to
\* NewWidth x NewHeight, and the ratios are those of that resize.
C5_ModelSeesResizedImage ==
    pc \notin {"start", "resized"} =>
        /\ net_in = [w |-> NewWidth, h |-> NewHeight]
        /\ ratio_w = Rat(net_in.w, img.w)
        /\ ratio_h = Rat(net_in.h, img.h)

\* C6: for a non-empty array adjust_ratio returns, for every coordinate, the
\* integer nearest to x / ratio_w (columns 0,2,4,6) or y / ratio_h (columns
\* 1,3,5,7), and the even one of the two when they are equally near.
C6_DividedThenRounded ==
    (call.op = "adjust" /\ call.stage = "done" /\ ~call.arg.none /\ call.arg.rows # <<>>) =>
        /\ ~call.ret.none
        /\ Len(call.ret.rows) = Len(call.arg.rows)
        /\ \A i \in 1..Len(call.arg.rows) :
             /\ Len(call.ret.rows[i]) = 8
             /\ \A j \in 1..8 :
                  LET a == call.arg.rows[i][j]
                      rt == IF j % 2 = 1 THEN call.ratio_w ELSE call.ratio_h
                      n == a[1] * rt[2]
                      d == a[2] * rt[1]
                      r == call.ret.rows[i][j]
                  IN  /\ r[2] = 1
                      /\ 2 * Abs(r[1] * d - n) <= d
                      /\ 2 * Abs(r[1] * d - n) = d => r[1] % 2 = 0

\* C6 witness: with ratio_w = 2 an x-coordinate of 5 has been returned as 2.
C6_Witness ==
    /\ call.op = "adjust"
    /\ call.stage = "done"
    /\ ~call.arg.none
    /\ call.ratio_w = <<2, 1>>
    /\ \E i \in 1..Len(call.arg.rows) : \E j \in {1, 3, 5, 7} :
         call.arg.rows[i][j] = <<5, 1>> /\ call.ret.rows[i][j] = <<2, 1>>

\* C7 (as claimed): restore_polys leaves the caller's valid_pos and valid_geo as
\* they were, adjust_ratio leaves the caller's boxes as they were, and get_boxes
\* leaves score and geo as they were.
C7_ArgumentsNotMutated ==
    [][/\ pc = "restore" => (valid_pos' = valid_pos /\ valid_geo' = valid_geo)
       /\ pc = "got" => boxes' = boxes
       /\ pc \in {"inferred", "restore", "assemble"} => (score' = score /\ geo' = geo)]_vars

\* The geometry map has not the extents of the score map.
ShapeMismatch == geo.rows # score.rows \/ geo.cols # score.cols

\* C8 (as claimed): with a geometry map of other extents than the score map,
\* get_boxes raises; it never goes on to restore or to return.
C8_ShapeMismatchRaises ==
    (ShapeMismatch /\ pc \notin {"start", "resized", "inferred"}) => pc = "raised"

C10_StableRowOrder ==
    pc \in {"restore", "assemble"} =>
        \A i, j \in 1..Len(xy_text) :
            i < j => \/ xy_text[i][1] < xy_text[j][1]
                     \/ (xy_text[i][1] = xy_text[j][1] /\ xy_text[i][2] < xy_text[j][2])

\* C11: every row handed to the merge step holds, in its first 8 columns, the
\* polygon restored from one selected pixel and, in its 9th, the score of that
\* same pixel: restore_polys keeps the input order, its index list is strictly
\* increasing, polygon k comes from position index[k], and the score is read
\* at xy_text[index[k]], also when is_valid_poly rejected some positions.
C11_ScoreOfRestoredPixel ==
    pc = "assemble" =>
        /\ Len(polys) = Len(index)
        /\ Len(MergeInput) = Len(polys)
        /\ \A k \in 1..Len(index) : index[k] \in 0..(Len(xy_text) - 1)
        /\ \A j, k \in 1..Len(index) : j < k => index[j] < index[k]
        /\ \A k \in 1..Len(index) :
               LET p == xy_text[index[k] + 1]
               IN  /\ valid_pos[index[k] + 1] = <<Scale * p[2], Scale * p[1]>>
                   /\ polys[k] = Flatten(RestoreOne(Scale * p[2], Scale * p[1], geo.val[p]))
                   /\ MergeInput[k] = polys[k] \o <<score.val[p]>>

\* Some position was rejected before one that was kept, the kept polygons
\* come from pixels of different scores, and two rows reach the merge.
C11_Witness ==
    /\ pc = "assemble"
    /\ Len(index) >= 2
    /\ index[1] > 0
    /\ \E k \in 1..Len(index) : score.val[xy_text[k]] # score.val[xy_text[index[k] + 1]]
    /\ \A j, k \in 1..Len(index) : j # k => MergeInput[j][9] # MergeInput[k][9]

\* The vector v turned by -q quarter turns, that is by the angle -q * pi/2:
\* (u, v) goes to (u cos a - v sin a, u sin a + v cos a) for a = -q * pi/2.
TurnBack(v, q) ==
    CASE q % 4 = 0 -> v
      [] q % 4 = 1 -> <<v[2], -v[1]>>
      [] q % 4 = 2 -> <<-v[1], -v[2]>>
      [] q % 4 = 3 -> <<-v[2], v[1]>>

\* The offsets of the four corners: top-left, top-right, bottom-right, bottom-left.
Offsets(g) == << <<-g[3], -g[1]>>, <<g[4], -g[1]>>, <<g[4], g[2]>>, <<-g[3], g[2]>> >>

\* [x1, y1, x2, y2, x3, y3, x4, y4] with corner k at (x, y) plus the k-th
\* offset turned by -q quarter turns.
ExpectedPoly(x, y, g) ==
    [j \in 1..8 |-> IF j % 2 = 1 THEN x + TurnBack(Offsets(g)[(j + 1) \div 2], g[5])[1]
                                 ELSE y + TurnBack(Offsets(g)[j \div 2], g[5])[2]]

\* C12: for a position (x, y) after scaling and a geometry column
\* (d0, d1, d2, d3, angle), the polygon restore_polys returns has corner k at
\* (x, y) plus the k-th offset rotated by -angle, the offsets being
\* (-d2,-d0), (d3,-d0), (d3,d1), (-d2,d1); for angle 0 it is
\* [x-d2, y-d0, x+d3, y-d0, x+d3, y+d1, x-d2, y+d1]; and (x, y) is the
\* position multiplied by scale once.
C12_RestoredPolygon ==
    (call.op = "restore" /\ call.stage = "done") =>
        LET x == Scale * call.valid_pos[1][1]
            y == Scale * call.valid_pos[1][2]
            g == call.valid_geo[1]
        IN  /\ call.pos_after = << <<x, y>> >>
            /\ Len(call.polys) = Len(call.index)
            /\ call.polys # <<>> =>
                   /\ call.index = <<0>>
                   /\ call.polys = <<ExpectedPoly(x, y, g)>>
                   /\ g[5] = 0 =>
                          call.polys[1] = <<x - g[3], y - g[1], x + g[4], y - g[1],
                                            x + g[4], y + g[2], x - g[3], y + g[2]>>

\* A polygon of unequal distances, turned by a quarter turn about a centre
\* away from the origin, was restored and kept.
C12_Witness ==
    /\ call.op = "restore"
    /\ call.stage = "done"
    /\ call.polys # <<>>
    /\ call.valid_geo[1][5] = 1
    /\ call.valid_geo[1][1] # call.valid_geo[1][2]
    /\ call.valid_geo[1][3] # call.valid_geo[1][4]
    /\ call.valid_pos[1][1] > 0
    /\ call.valid_pos[1][2] > 0

\* C13 (as claimed): from any positive width and height and any label length,
\* the enlargement loop ends: the program reaches the forward pass, with
\* w >= L * PIX_P_PRED.
C13_LoopTerminates ==
    <>(call.at = "forward" /\ call.w >= call.L * PIX_P_PRED)

====
